---- MODULE Spec2Model ----
(***************************************************************************)
(* Model of the Altibbe AI service (src/ai-service/app.py): a Flask        *)
(* application with six routes and two error handlers in front of an       *)
(* external text-generation API.                                           *)
(*                                                                         *)
(* Every request is handled by one action.  The request body, and the     *)
(* outcome of the external call when one is made, are the inputs of the   *)
(* action.  The state keeps the last request, the outcome of the external *)
(* call, the handler's locals the properties refer to, and the response.  *)
(*                                                                         *)
(* Texts are TLA+ strings and are processed character by character.       *)
(* Python floats are modelled as exact rationals [n, d] in lowest terms;  *)
(* the numbers of a response that the code rounds to one decimal are      *)
(* integers counting tenths (400 stands for 40.0).                        *)
(***************************************************************************)
EXTENDS Integers, Sequences, FiniteSets, TLC

VARIABLES
    model,            \* app.py:19-26  TRUE iff GEMINI_API_KEY was set at start-up
    route,            \* the route of the last request ("none" before the first)
    request,          \* the JSON body of the last request
    reply,            \* outcome of model.generate_content in the last request
    aiCalls,          \* number of model.generate_content calls of the last request
    score_breakdown,  \* app.py:170  local of calculate_transparency_score
    overall_score,    \* app.py:173  local of calculate_transparency_score
    response          \* [status, body] sent for the last request

vars == <<model, route, request, reply, aiCalls, score_breakdown, overall_score, response>>

(***************************************************************************)
(* Python values as they arrive in a JSON body.  A missing dictionary key  *)
(* is the value Absent.                                                    *)
(***************************************************************************)
Absent == [kind |-> "absent", val |-> ""]
None == [kind |-> "null", val |-> ""]
Str(s) == [kind |-> "str", val |-> s]
Bool(b) == [kind |-> "bool", val |-> b]
Num(n) == [kind |-> "num", val |-> n]
List(l) == [kind |-> "list", val |-> l]
Dict(d) == [kind |-> "dict", val |-> d]

\* d.get(k): None when the key is missing
Get(d, k) == IF d[k].kind = "absent" THEN None ELSE d[k]

\* d.get(k, default)
GetD(d, k, default) == IF d[k].kind = "absent" THEN default ELSE d[k]

\* Python truth value
Truthy(v) ==
    CASE v.kind = "str" -> v.val # ""
      [] v.kind = "bool" -> v.val
      [] v.kind = "num" -> v.val # 0
      [] v.kind = "list" -> Len(v.val) > 0
      [] v.kind = "dict" -> \E k \in DOMAIN v.val : v.val[k].kind # "absent"
      [] OTHER -> FALSE

Digits == <<"0", "1", "2", "3", "4", "5", "6", "7", "8", "9">>

RECURSIVE NatStr(_)
NatStr(n) == IF n < 10 THEN Digits[n + 1] ELSE NatStr(n \div 10) \o Digits[(n % 10) + 1]

\* str(v) for the values an answer can hold
PyStr(v) ==
    CASE v.kind = "str" -> v.val
      [] v.kind = "bool" -> IF v.val THEN "True" ELSE "False"
      [] v.kind = "num" -> NatStr(v.val)
      [] OTHER -> "None"

(***************************************************************************)
(* str methods                                                             *)
(***************************************************************************)
Whitespace == {" ", "\t", "\n", "\r", "\f"}

LowerMap ==
    "A" :> "a" @@ "B" :> "b" @@ "C" :> "c" @@ "D" :> "d" @@ "E" :> "e" @@
    "F" :> "f" @@ "G" :> "g" @@ "H" :> "h" @@ "I" :> "i" @@ "J" :> "j" @@
    "K" :> "k" @@ "L" :> "l" @@ "M" :> "m" @@ "N" :> "n" @@ "O" :> "o" @@
    "P" :> "p" @@ "Q" :> "q" @@ "R" :> "r" @@ "S" :> "s" @@ "T" :> "t" @@
    "U" :> "u" @@ "V" :> "v" @@ "W" :> "w" @@ "X" :> "x" @@ "Y" :> "y" @@
    "Z" :> "z"

RECURSIVE lower(_)
lower(s) ==
    IF s = "" THEN ""
    ELSE (IF Head(s) \in DOMAIN LowerMap THEN LowerMap[Head(s)] ELSE Head(s))
         \o lower(Tail(s))

RECURSIVE lstrip(_)
lstrip(s) == IF s # "" /\ Head(s) \in Whitespace THEN lstrip(Tail(s)) ELSE s

RECURSIVE rstrip(_)
rstrip(s) ==
    IF s # "" /\ SubSeq(s, Len(s), Len(s)) \in Whitespace
    THEN rstrip(SubSeq(s, 1, Len(s) - 1))
    ELSE s

strip(s) == rstrip(lstrip(s))

\* sub in s
Contains(sub, s) ==
    \E i \in 1..(Len(s) - Len(sub) + 1) : SubSeq(s, i, i + Len(sub) - 1) = sub

(***************************************************************************)
(* Rationals for the float arithmetic of the scorer                        *)
(***************************************************************************)
RECURSIVE GCD(_, _)
GCD(a, b) == IF b = 0 THEN a ELSE GCD(b, a % b)

Rat(n, d) == LET g == GCD(n, d) IN [n |-> n \div g, d |-> d \div g]

Int2Rat(i) == [n |-> i, d |-> 1]

RatAdd(x, y) == Rat(x.n * y.d + y.n * x.d, x.d * y.d)

RatGE(x, i) == x.n >= i * x.d

RatLT(x, i) == x.n < i * x.d

\* round(x, 1), in tenths: nearest, an exact tie to the even tenth
Round1(x) ==
    LET q == (10 * x.n) \div x.d
        r == (10 * x.n) % x.d
    IN  IF 2 * r > x.d \/ (2 * r = x.d /\ q % 2 = 1) THEN q + 1 ELSE q

(***************************************************************************)
(* calculate_transparency_breakdown and calculate_category_compliance      *)
(*                                                                         *)
(* An answer is a dictionary [questionId, answer]; either key may be       *)
(* Absent.  questionId, when present, is a string.                         *)
(***************************************************************************)
not_meaningful == {"yes", "no", "n/a", "na"}

positive_answers == {"yes", "true"}

\* app.py:241-247, the body of the completeness loop: 1 if the answer counts
answered(answer) ==
    IF Truthy(Get(answer, "answer")) /\ strip(PyStr(answer.answer)) # ""
    THEN LET answer_text == lower(strip(PyStr(answer.answer)))
         IN  IF Len(answer_text) > 3 /\ answer_text \notin not_meaningful
             THEN 1
             ELSE IF /\ answer_text \in positive_answers
                     /\ Contains("certified", GetD(answer, "questionId", Str("")).val)
                  THEN 1
                  ELSE 0
    ELSE 0

RECURSIVE answered_count(_)
answered_count(answers) ==
    IF answers = <<>> THEN 0
    ELSE answered(Head(answers)) + answered_count(Tail(answers))

\* app.py:261-268, the length tier of a non-empty answer text
quality_tier(answer_text) ==
    IF Len(answer_text) > 50 THEN 100
    ELSE IF Len(answer_text) > 20 THEN 75
    ELSE IF Len(answer_text) > 10 THEN 50
    ELSE 25

\* app.py:256-268: <<quality_points, quality_total>> after the loop
RECURSIVE quality_loop(_)
quality_loop(answers) ==
    IF answers = <<>> THEN <<0, 0>>
    ELSE LET answer_text == strip(PyStr(GetD(Head(answers), "answer", Str(""))))
             rest == quality_loop(Tail(answers))
         IN  IF answer_text # ""
             THEN <<rest[1] + quality_tier(answer_text), rest[2] + 1>>
             ELSE rest

transparency_keywords ==
    <<"certified", "organic", "tested", "verified", "compliant", "standard",
      "warranty", "guarantee", "documentation", "certificate", "audit",
      "eco-friendly", "sustainable", "ethical", "cruelty-free">>

\* mutant: one point per matching answer instead of ten
RECURSIVE transparency_points_single(_)
transparency_points_single(answers) ==
    IF answers = <<>> THEN 0
    ELSE LET answer_text == lower(PyStr(GetD(Head(answers), "answer", Str(""))))
         IN  (IF \E k \in 1..Len(transparency_keywords) :
                    Contains(transparency_keywords[k], answer_text)
              THEN 1 ELSE 0)
             + transparency_points_single(Tail(answers))

\* app.py:281-286
RECURSIVE transparency_points(_)
transparency_points(answers) ==
    IF answers = <<>> THEN 0
    ELSE LET answer_text == lower(PyStr(GetD(Head(answers), "answer", Str(""))))
         IN  (IF \E k \in 1..Len(transparency_keywords) :
                    Contains(transparency_keywords[k], answer_text)
              THEN 10 ELSE 0)
             + transparency_points(Tail(answers))

Min(a, b) == IF a <= b THEN a ELSE b

default_requirements == <<"quality", "origin", "standard">>

category_requirements(category) ==
    CASE category = Str("Electronics") -> <<"warranty", "safety", "energy", "certification">>
      [] category = Str("Food & Beverage") -> <<"expiry", "organic", "allergen", "shelf">>
      [] category = Str("Clothing") -> <<"material", "care", "size", "manufacturing">>
      [] category = Str("Health & Beauty") -> <<"ingredients", "tested", "dermatolog", "expiry">>
      [] OTHER -> default_requirements

\* mutant: 25 points for every required term found, the break forgotten
RECURSIVE compliance_points_per_term(_, _)
compliance_points_per_term(answers, required_terms) ==
    IF answers = <<>> THEN 0
    ELSE LET answer_text == lower(PyStr(GetD(Head(answers), "answer", Str(""))))
             question_id == lower(PyStr(GetD(Head(answers), "questionId", Str(""))))
         IN  25 * Cardinality({t \in 1..Len(required_terms) :
                    \/ Contains(required_terms[t], answer_text)
                    \/ Contains(required_terms[t], question_id)})
             + compliance_points_per_term(Tail(answers), required_terms)

\* app.py:309-316
RECURSIVE compliance_points(_, _)
compliance_points(answers, required_terms) ==
    IF answers = <<>> THEN 0
    ELSE LET answer_text == lower(PyStr(GetD(Head(answers), "answer", Str(""))))
             question_id == lower(PyStr(GetD(Head(answers), "questionId", Str(""))))
         IN  (IF \E t \in 1..Len(required_terms) :
                    \/ Contains(required_terms[t], answer_text)
                    \/ Contains(required_terms[t], question_id)
              THEN 25 ELSE 0)
             + compliance_points(Tail(answers), required_terms)

calculate_category_compliance(answers, category) ==
    Min(compliance_points(answers, category_requirements(category)), 100)

completeness_score(answers) ==
    IF Len(answers) > 0 THEN Rat(answered_count(answers) * 100, Len(answers))
    ELSE Int2Rat(0)

quality_score(answers) ==
    LET q == quality_loop(answers)
    IN  IF q[2] > 0 THEN Rat(q[1] * 100, q[2] * 100) ELSE Int2Rat(0)

\* mutant: the cap at 100 forgotten
transparency_score_uncapped(answers) == Int2Rat(transparency_points(answers) * 10)

transparency_score(answers) == Int2Rat(Min(transparency_points(answers) * 10, 100))

calculate_transparency_breakdown(answers, category) ==
    IF answers = <<>>
    THEN [completeness |-> Int2Rat(0), quality |-> Int2Rat(0),
          transparency |-> Int2Rat(0), compliance |-> Int2Rat(0)]
    ELSE [completeness |-> completeness_score(answers),
          quality |-> quality_score(answers),
          transparency |-> transparency_score(answers),
          compliance |-> Int2Rat(calculate_category_compliance(answers, category))]

(***************************************************************************)
(* generate_basic_recommendations                                          *)
(***************************************************************************)
AREAS == <<"completeness", "quality", "transparency", "compliance">>

RatLess(x, y) == x.n * y.d < y.n * x.d

\* mutant: a tie for the minimum goes to the last key
lowest_area_last(sb) ==
    AREAS[CHOOSE i \in 1..Len(AREAS) :
            /\ \A j \in 1..Len(AREAS) : ~RatLess(sb[AREAS[j]], sb[AREAS[i]])
            /\ \A j \in (i + 1)..Len(AREAS) : RatLess(sb[AREAS[i]], sb[AREAS[j]])]

\* min(score_breakdown, key=score_breakdown.get): the first key, in the
\* dictionary's insertion order, that no other key undercuts
lowest_area(sb) ==
    AREAS[CHOOSE i \in 1..Len(AREAS) :
            /\ \A j \in 1..Len(AREAS) : ~RatLess(sb[AREAS[j]], sb[AREAS[i]])
            /\ \A j \in 1..(i - 1) : RatLess(sb[AREAS[i]], sb[AREAS[j]])]

recommendation_map(area) ==
    CASE area = "completeness" ->
           "Provide more detailed answers to all questions to improve transparency"
      [] area = "quality" ->
           "Include more specific details and explanations in your responses"
      [] area = "transparency" ->
           "Add more certifications, standards compliance, and quality documentation"
      [] area = "compliance" ->
           "Ensure all category-specific requirements and standards are addressed"
      [] OTHER -> "Improve overall product transparency"

certification_text == "Consider obtaining relevant certifications for your product category"

documentation_text ==
    "Provide more comprehensive documentation and detailed product information"

filler_text == "Continue to improve product transparency and documentation"

\* l[:k]
Take(l, k) == SubSeq(l, 1, Min(k, Len(l)))

\* app.py:384-385
RECURSIVE pad(_)
pad(recommendations) ==
    IF Len(recommendations) < 3
    THEN pad(Append(recommendations, Str(filler_text)))
    ELSE recommendations

generate_basic_recommendations(sb) ==
    LET r1 == <<Str(recommendation_map(lowest_area(sb)))>>
        r2 == IF RatLT(sb.transparency, 70)
              THEN Append(r1, Str(certification_text)) ELSE r1
        r3 == IF RatLT(sb.quality, 70)
              THEN Append(r2, Str(documentation_text)) ELSE r2
    IN  Take(pad(r3), 3)

(***************************************************************************)
(* The external API.  A call either raises or returns a text.              *)
(***************************************************************************)
NoCall == [kind |-> "none", text |-> ""]
Raises == [kind |-> "raise", text |-> ""]
Text(t) == [kind |-> "text", text |-> t]

\* positions of character c in s
Positions(c, s) == {i \in 1..Len(s) : SubSeq(s, i, i) = c}

SetMin(S) == CHOOSE x \in S : \A y \in S : x <= y

SetMax(S) == CHOOSE x \in S : \A y \in S : x >= y

\* re.search(r'\[.*\]', text, re.DOTALL): from the first "[" to the last "]"
re_search(text) ==
    LET opens == Positions("[", text)
        closes == Positions("]", text)
    IN  IF opens # {} /\ closes # {} /\ SetMax(closes) > SetMin(opens)
        THEN [found |-> TRUE, group |-> SubSeq(text, SetMin(opens), SetMax(closes))]
        ELSE [found |-> FALSE, group |-> ""]

(***************************************************************************)
(* The replies the external API gives in this model, and json.loads on     *)
(* the substrings re_search cuts out of them.  json_loads is a table: the  *)
(* value of every such substring that is valid JSON; json.loads raises     *)
(* JSONDecodeError on the others.                                          *)
(***************************************************************************)
\* a JSON object of a question list, by its keys
Q(id, question, type, required, options) ==
    Dict([id |-> id, question |-> question, type |-> type,
          required |-> required, options |-> options])

recommendation_replies ==
    {"I am unable to provide recommendations right now.",
     "[\"Publish your audit reports\"] (see also [1])",
     "No suggestions: []",
     "[\"Publish your audit reports\"]",
     "[\"Publish your audit reports\", \"List every ingredient\"]",
     "Three ideas: [\"Publish your audit reports\", \"List every ingredient\", \"State the warranty\"] Good luck!",
     "[\"Publish your audit reports\", \"List every ingredient\", \"State the warranty\", \"Name the origin\"]"}

recommendation_docs == <<
    [text |->
       "[]",
     value |-> List(<<>>)],
    [text |->
       "[\"Publish your audit reports\"]",
     value |-> List(<<
           Str("Publish your audit reports")>>)],
    [text |->
       "[\"Publish your audit reports\", \"List every ingredient\"]",
     value |-> List(<<
           Str("Publish your audit reports"),
           Str("List every ingredient")>>)],
    [text |->
       "[\"Publish your audit reports\", \"List every ingredient\", \"State the warranty\"]",
     value |-> List(<<
           Str("Publish your audit reports"),
           Str("List every ingredient"),
           Str("State the warranty")>>)],
    [text |->
       "[\"Publish your audit reports\", \"List every ingredient\", \"State the warranty\", \"Name the origin\"]",
     value |-> List(<<
           Str("Publish your audit reports"),
           Str("List every ingredient"),
           Str("State the warranty"),
           Str("Name the origin")>>)]>>

question_replies ==
    {"Sorry, I cannot generate questions.",
     "Questions: [1. Is it safe? 2. Where is it made?]",
     "[]",
     "JSON:\n[{\"id\": \"q_w\", \"question\": \"Warranty period?\", \"type\": \"text\", \"required\": true}, {\"id\": \"q_s\", \"question\": \" Is it safe? \", \"type\": \"boolean\", \"required\": false}, {\"id\": \"q_c\", \"question\": \"Which color?\", \"type\": \"select\", \"required\": true, \"options\": [\"red\", \"blue\"]}]\nEnd",
     "[{\"question\": \"Where is it made?\"}]",
     "[{\"id\": \"q_rating\", \"question\": \"How would you rate it?\", \"type\": \"rating\", \"options\": [\"1\", \"5\"]}]",
     "[{\"id\": \"q_null\", \"question\": \"Is it recyclable?\", \"type\": null}]",
     "[{\"id\": \"q_pick\", \"question\": \"Which size?\", \"type\": \"select\"}]",
     "[\"What is the warranty period?\"]",
     "[{\"id\": \"q_num\", \"question\": 42, \"type\": \"number\"}]",
     "[{\"id\": \"q_blank\", \"question\": \"   \", \"type\": \"text\"}, {\"id\": \"q_none\", \"type\": \"text\"}]",
     "[{\"question\": \"How heavy?\", \"type\": \"number\"}, {\"question\": \"Waterproof?\", \"type\": \"boolean\"}, {\"question\": \"Who makes it?\"}, {\"question\": \"A fourth?\"}]"}

question_docs == <<
    [text |->
       "[]",
     value |-> List(<<>>)],
    [text |->
       "[{\"id\": \"q_w\", \"question\": \"Warranty period?\", \"type\": \"text\", \"required\": true}, {\"id\": \"q_s\", \"question\": \" Is it safe? \", \"type\": \"boolean\", \"required\": false}, {\"id\": \"q_c\", \"question\": \"Which color?\", \"type\": \"select\", \"required\": true, \"options\": [\"red\", \"blue\"]}]",
     value |-> List(<<
           Q(Str("q_w"), Str("Warranty period?"), Str("text"), Bool(TRUE), Absent),
           Q(Str("q_s"), Str(" Is it safe? "), Str("boolean"), Bool(FALSE), Absent),
           Q(Str("q_c"), Str("Which color?"), Str("select"), Bool(TRUE), List(<<Str("red"), Str("blue")>>))>>)],
    [text |->
       "[{\"question\": \"Where is it made?\"}]",
     value |-> List(<<
           Q(Absent, Str("Where is it made?"), Absent, Absent, Absent)>>)],
    [text |->
       "[{\"id\": \"q_rating\", \"question\": \"How would you rate it?\", \"type\": \"rating\", \"options\": [\"1\", \"5\"]}]",
     value |-> List(<<
           Q(Str("q_rating"), Str("How would you rate it?"), Str("rating"), Absent, List(<<Str("1"), Str("5")>>))>>)],
    [text |->
       "[{\"id\": \"q_null\", \"question\": \"Is it recyclable?\", \"type\": null}]",
     value |-> List(<<
           Q(Str("q_null"), Str("Is it recyclable?"), None, Absent, Absent)>>)],
    [text |->
       "[{\"id\": \"q_pick\", \"question\": \"Which size?\", \"type\": \"select\"}]",
     value |-> List(<<
           Q(Str("q_pick"), Str("Which size?"), Str("select"), Absent, Absent)>>)],
    [text |->
       "[\"What is the warranty period?\"]",
     value |-> List(<<
           Str("What is the warranty period?")>>)],
    [text |->
       "[{\"id\": \"q_num\", \"question\": 42, \"type\": \"number\"}]",
     value |-> List(<<
           Q(Str("q_num"), Num(42), Str("number"), Absent, Absent)>>)],
    [text |->
       "[{\"id\": \"q_blank\", \"question\": \"   \", \"type\": \"text\"}, {\"id\": \"q_none\", \"type\": \"text\"}]",
     value |-> List(<<
           Q(Str("q_blank"), Str("   "), Str("text"), Absent, Absent),
           Q(Str("q_none"), Absent, Str("text"), Absent, Absent)>>)],
    [text |->
       "[{\"question\": \"How heavy?\", \"type\": \"number\"}, {\"question\": \"Waterproof?\", \"type\": \"boolean\"}, {\"question\": \"Who makes it?\"}, {\"question\": \"A fourth?\"}]",
     value |-> List(<<
           Q(Absent, Str("How heavy?"), Str("number"), Absent, Absent),
           Q(Absent, Str("Waterproof?"), Str("boolean"), Absent, Absent),
           Q(Absent, Str("Who makes it?"), Absent, Absent, Absent),
           Q(Absent, Str("A fourth?"), Absent, Absent, Absent)>>)]>>

json_docs == recommendation_docs \o question_docs

json_loads(s) ==
    IF \E i \in 1..Len(json_docs) : json_docs[i].text = s
    THEN [ok |-> TRUE,
          value |-> json_docs[CHOOSE i \in 1..Len(json_docs) : json_docs[i].text = s].value]
    ELSE [ok |-> FALSE, value |-> None]

(***************************************************************************)
(* generate_ai_recommendations: ai is the outcome of generate_content      *)
(***************************************************************************)
\* mutant: no fallback after a failed call or an unusable reply
generate_ai_recommendations_no_fallback(ai, sb) ==
    IF ai.kind = "raise" THEN <<>>
    ELSE LET json_match == re_search(ai.text)
             recommendations == json_loads(json_match.group)
         IN  IF json_match.found /\ recommendations.ok
             THEN Take(recommendations.value.val, 3)
             ELSE <<>>

generate_ai_recommendations(ai, sb) ==
    IF ai.kind = "raise"
    THEN generate_basic_recommendations(sb)
    ELSE LET json_match == re_search(ai.text)
         IN  IF json_match.found
             THEN LET recommendations == json_loads(json_match.group)
                  IN  IF recommendations.ok
                      THEN Take(recommendations.value.val, 3)
                      ELSE generate_basic_recommendations(sb)
             ELSE generate_basic_recommendations(sb)

(***************************************************************************)
(* POST /api/transparency-score                                            *)
(***************************************************************************)
Error(status, error, message) ==
    [status |-> status, body |-> [error |-> error, message |-> message]]

\* mutant: a failed call is tried once more
Handled_with_retry(resp, ai, calls) ==
    [response |-> resp, reply |-> ai,
     aiCalls |-> IF ai.kind = "raise" THEN calls + 1 ELSE calls,
     score_breakdown |-> <<>>, overall_score |-> <<>>]

\* what a handler leaves behind when it computes no score
Handled(resp, ai, calls) ==
    [response |-> resp, reply |-> ai, aiCalls |-> calls,
     score_breakdown |-> <<>>, overall_score |-> <<>>]

\* sum(score_breakdown.values()) / len(score_breakdown)
mean(sb) ==
    LET total == RatAdd(RatAdd(sb.completeness, sb.quality),
                        RatAdd(sb.transparency, sb.compliance))
    IN  Rat(total.n, total.d * Len(AREAS))

\* app.py:176-187
score_band(overall) ==
    IF RatGE(overall, 80) THEN [level |-> "Excellent", color |-> "green"]
    ELSE IF RatGE(overall, 60) THEN [level |-> "Good", color |-> "blue"]
    ELSE IF RatGE(overall, 40) THEN [level |-> "Fair", color |-> "yellow"]
    ELSE [level |-> "Needs Improvement", color |-> "red"]

\* {k: round(v, 1) for k, v in score_breakdown.items()}
rounded(sb) == [k \in DOMAIN sb |-> Round1(sb[k])]

\* mutant: only a missing answers value is refused (`if answers is None`)
missing_answers_none(answers) == answers.kind = "null"

\* app.py:161, `if not answers`
missing_answers(answers) == ~Truthy(answers)

calculate_transparency_score(data, ai) ==
    IF ~Truthy(data)
    THEN Handled(Error(400, "Missing request data",
                       "Please provide product data with answers"), NoCall, 0)
    ELSE
    LET product_name == GetD(data.val, "product_name", Str(""))
        category == GetD(data.val, "category", Str(""))
        answers == GetD(data.val, "answers", List(<<>>))
    IN  IF missing_answers(answers)
        THEN Handled(Error(400, "Missing answers",
                           "Please provide product answers for scoring"), NoCall, 0)
        ELSE
        LET sb == calculate_transparency_breakdown(answers.val, category)
            overall == mean(sb)
            band == score_band(overall)
            recommendations ==
                IF model THEN generate_ai_recommendations(ai, sb)
                ELSE generate_basic_recommendations(sb)
        IN  [response |->
               [status |-> 200,
                body |-> [success |-> TRUE,
                          transparency_score |->
                            [overall_score |-> Round1(overall),
                             score_level |-> band.level,
                             score_color |-> band.color,
                             breakdown |-> rounded(sb),
                             recommendations |-> recommendations,
                             product_name |-> product_name,
                             category |-> category,
                             total_answers |-> Len(answers.val)]]],
             reply |-> IF model THEN ai ELSE NoCall,
             aiCalls |-> IF model THEN 1 ELSE 0,
             score_breakdown |-> <<sb>>,
             overall_score |-> <<overall>>]

(***************************************************************************)
(* POST /api/generate and POST /api/chat                                   *)
(***************************************************************************)
NotConfigured ==
    Error(503, "AI model not configured",
          "Please set GEMINI_API_KEY in environment variables")

\* str(e) of the exception a handler caught
ExceptionText == "<str(e)>"

Generated(text) ==
    [status |-> 200,
     body |-> [success |-> TRUE, response |-> text, model |-> "gemini-1.5-flash"]]

\* app.py:54-96.  prompt[:50] raises when the prompt is no string.
generate_text(data, ai) ==
    IF ~model THEN Handled(NotConfigured, NoCall, 0)
    ELSE IF ~Truthy(data) \/ data.val.prompt.kind = "absent"
    THEN Handled(Error(400, "Missing prompt",
                       "Please provide a prompt in the request body"), NoCall, 0)
    ELSE IF data.val.prompt.kind # "str"
    THEN Handled(Error(500, "Generation failed", ExceptionText), NoCall, 0)
    ELSE IF ai.kind = "raise"
    THEN Handled(Error(500, "Generation failed", ExceptionText), ai, 1)
    ELSE Handled(Generated(ai.text), ai, 1)

\* app.py:99-144.  message[:50] raises when the message is no string, and
\* msg.get when an entry of the context is no dictionary.
chat(data, ai) ==
    IF ~model THEN Handled(NotConfigured, NoCall, 0)
    ELSE IF ~Truthy(data) \/ data.val.message.kind = "absent"
    THEN Handled(Error(400, "Missing message",
                       "Please provide a message in the request body"), NoCall, 0)
    ELSE
    LET context == GetD(data.val, "context", List(<<>>))
    IN  IF \/ data.val.message.kind # "str"
           \/ /\ Truthy(context)
              /\ \E k \in 1..Len(context.val) : context.val[k].kind # "dict"
        THEN Handled(Error(500, "Chat failed", ExceptionText), NoCall, 0)
        ELSE IF ai.kind = "raise"
        THEN Handled(Error(500, "Chat failed", ExceptionText), ai, 1)
        ELSE Handled(Generated(ai.text), ai, 1)

(***************************************************************************)
(* POST /api/generate-questions                                            *)
(***************************************************************************)
Question(id, question, type, required) ==
    [id |-> Str(id), question |-> Str(question), type |-> Str(type),
     required |-> Bool(required), options |-> Absent]

\* app.py:541-652
generate_fallback_questions(category, product_name) ==
    LET product_ref == IF Truthy(product_name) THEN "this " \o PyStr(product_name)
                       ELSE "this product"
    IN  CASE category = Str("Electronics") ->
               <<Question("warranty_period",
                          "How long is the warranty for " \o product_ref \o "?", "text", TRUE),
                 Question("energy_efficiency",
                          "Is " \o product_ref \o " energy efficient?", "boolean", TRUE),
                 Question("safety_certifications",
                          "What safety certifications does " \o product_ref \o " have?",
                          "text", TRUE)>>
          [] category = Str("Food & Beverage") ->
               <<Question("expiry_shelf_life",
                          "What is the shelf life of " \o product_ref \o "?", "text", TRUE),
                 Question("organic_certified",
                          "Is " \o product_ref \o " certified organic?", "boolean", FALSE),
                 Question("allergen_information",
                          "Does " \o product_ref \o " contain any common allergens?",
                          "text", TRUE)>>
          [] category = Str("Clothing") ->
               <<Question("material_composition",
                          "What materials is " \o product_ref \o " made from?", "text", TRUE),
                 Question("care_instructions",
                          "How should I care for " \o product_ref \o "?", "text", TRUE),
                 Question("size_availability",
                          "What sizes are available for " \o product_ref \o "?", "text", FALSE)>>
          [] category = Str("Health & Beauty") ->
               <<Question("ingredients_list",
                          "What are the main ingredients in " \o product_ref \o "?",
                          "text", TRUE),
                 Question("skin_tested",
                          "Has " \o product_ref \o " been tested for sensitive skin?",
                          "boolean", TRUE),
                 Question("expiry_date",
                          "What is the shelf life of " \o product_ref \o "?", "text", TRUE)>>
          [] OTHER ->
               <<Question("quality_standards",
                          "What quality standards does " \o product_ref \o " meet?",
                          "text", TRUE),
                 Question("country_of_origin",
                          "Where is " \o product_ref \o " manufactured?", "text", TRUE),
                 Question("customer_support",
                          "What customer support is available for " \o product_ref \o "?",
                          "text", FALSE)>>

\* app.py:490-502, one pass of the loop: q.get raises when q is no
\* dictionary, and .strip() when the question is no string
validated(q, i) ==
    IF q.kind # "dict" \/ GetD(q.val, "question", Str("")).kind # "str"
    THEN [raised |-> TRUE, keep |-> FALSE, q |-> None]
    ELSE LET type == GetD(q.val, "type", Str("text"))
             question == strip(GetD(q.val, "question", Str("")).val)
         IN  [raised |-> FALSE,
              keep |-> question # "",
              q |-> [id |-> GetD(q.val, "id", Str("ai_question_" \o NatStr(i))),
                     question |-> Str(question),
                     type |-> type,
                     required |-> GetD(q.val, "required", Bool(TRUE)),
                     options |-> IF type = Str("select") THEN q.val.options ELSE Absent]]

\* app.py:488-502: the loop over questions[:3], from entry i on
RECURSIVE validate_from(_, _)
validate_from(questions, i) ==
    IF i > Len(questions) THEN [raised |-> FALSE, list |-> <<>>]
    ELSE LET v == validated(questions[i], i)
             rest == validate_from(questions, i + 1)
         IN  IF v.raised \/ rest.raised THEN [raised |-> TRUE, list |-> <<>>]
             ELSE [raised |-> FALSE,
                   list |-> IF v.keep THEN <<v.q>> \o rest.list ELSE rest.list]

Questions(questions, name, category, extra) ==
    [status |-> 200,
     body |-> [success |-> TRUE, questions |-> questions, model |-> name,
               category |-> category, count |-> Len(questions)] @@ extra]

\* mutant: the except branch reports the error, as /api/generate does
questions_on_error_500(data) == Error(500, "Question generation failed", ExceptionText)

\* app.py:527-539, the handler's except branch
questions_on_error(data) ==
    Questions(generate_fallback_questions(GetD(data.val, "category", Str("General")),
                                          GetD(data.val, "product_name", Str(""))),
              "fallback", GetD(data.val, "category", Str("General")),
              [note |-> "Used fallback questions due to error: " \o ExceptionText])

\* mutant: the check reads product_name where it should read description
missing_input_product_name(data) ==
    /\ ~Truthy(GetD(data.val, "category", Str("")))
    /\ ~Truthy(GetD(data.val, "product_name", Str("")))

\* app.py:410, `if not category and not description`
missing_input(data) ==
    /\ ~Truthy(GetD(data.val, "category", Str("")))
    /\ ~Truthy(GetD(data.val, "description", Str("")))

generate_questions(data, ai) ==
    IF ~model THEN Handled(NotConfigured, NoCall, 0)
    ELSE IF ~Truthy(data)
    THEN Handled(Error(400, "Missing request data",
                       "Please provide request body with category or description"),
                 NoCall, 0)
    ELSE
    LET category == GetD(data.val, "category", Str(""))
        product_name == GetD(data.val, "product_name", Str(""))
    IN  IF missing_input(data)
        THEN Handled(Error(400, "Missing required fields",
                           "Please provide either category or description"), NoCall, 0)
        ELSE IF ai.kind = "raise"
        THEN Handled(questions_on_error(data), ai, 1)
        ELSE
        LET json_match == re_search(strip(ai.text))
            questions == json_loads(json_match.group)
            validated_questions == validate_from(Take(questions.value.val, 3), 1)
        IN  IF json_match.found /\ questions.ok
            THEN IF validated_questions.raised
                 THEN Handled(questions_on_error(data), ai, 1)
                 ELSE Handled(Questions(validated_questions.list, "gemini-1.5-flash",
                                        category, <<>>), ai, 1)
            ELSE Handled(Questions(generate_fallback_questions(category, product_name),
                                   "gemini-1.5-flash (fallback)", category,
                                   [note |-> "Used fallback questions due to AI response parsing issue"]),
                         ai, 1)

(***************************************************************************)
(* GET /, GET /health and the error handlers                               *)
(***************************************************************************)
home ==
    [status |-> 200,
     body |-> [service |-> "Altibbe AI Service", status |-> "running",
               ai_enabled |-> model,
               endpoints |-> [health |-> "/health",
                              generate |-> "/api/generate",
                              chat |-> "/api/chat",
                              generate_questions |-> "/api/generate-questions",
                              transparency_score |-> "/api/transparency-score"]]]

\* GEMINI_API_KEY may be set and empty: then no model is configured and
\* api_key_configured is still true.
health(api_key_configured) ==
    [status |-> 200,
     body |-> [status |-> "healthy",
               ai_model |-> IF model THEN "gemini-1.5-flash" ELSE "disabled",
               api_key_configured |-> api_key_configured]]

available_endpoints ==
    <<"GET /", "GET /health", "POST /api/generate", "POST /api/chat",
      "POST /api/generate-questions", "POST /api/transparency-score">>

not_found ==
    [status |-> 404,
     body |-> [error |-> "Endpoint not found",
               available_endpoints |-> available_endpoints]]

\* Flask calls it for an exception that leaves a handler; none does for the
\* request bodies of this model.
internal_error ==
    Error(500, "Internal server error", "Something went wrong on our end")

(***************************************************************************)
(* Request bodies                                                          *)
(***************************************************************************)
Answer(questionId, answer) == [questionId |-> questionId, answer |-> answer]

\* The answers requests are made of.  The first CorePool of them also make
\* the long answer lists.
AnswerPool == <<
    Answer(Str("q1"), Str("")),
    Answer(Str("q2"), Str("yes")),
    Answer(Str("q3"), Str("certified")),
    Answer(Str("q4"), Str("made in india")),
    Answer(Str("cert_1"), Str("This product has warranty and safety certification")),
    Answer(Str("q6"), None),
    Answer(Str("q7"), Str(" \t ")),
    Answer(Str("organic_certified"), Bool(TRUE)),
    Answer(Str("is_certified"), Str("Yes")),
    Answer(Absent, Absent),
    Answer(Str("q11"),
           Str("ORGANIC cotton, Tested and VERIFIED by an independent audit in 2023")),
    Answer(Str("Warranty_Period"), Num(2)),
    Answer(Str("q13"), Bool(FALSE)),
    Answer(Str("origin_country"), Str("High quality")) >>

MaxAnswers == 3

MaxManyAnswers == 7

CorePool == 5

\* the index lists of length n over 1..p, in pool order
RECURSIVE IndexLists(_, _)
IndexLists(n, p) ==
    IF n = 0 THEN {<<>>}
    ELSE UNION {{Append(s, k) : k \in {j \in 1..p : s = <<>> \/ s[Len(s)] <= j}} :
                  s \in IndexLists(n - 1, p)}

AnswerLists ==
    LET few == UNION {IndexLists(n, Len(AnswerPool)) : n \in 0..MaxAnswers}
        many == UNION {IndexLists(n, Min(CorePool, Len(AnswerPool))) : n \in 0..MaxManyAnswers}
    IN  {[i \in 1..Len(s) |-> AnswerPool[s[i]]] : s \in few \cup many}

ScoreBody(product_name, category, answers) ==
    Dict([product_name |-> product_name, category |-> category, answers |-> answers])

ScoreBodies ==
    {None, ScoreBody(Absent, Absent, Absent)} \cup
    {ScoreBody(Str("EcoPhone"), c, a) :
        c \in {Absent, Str("Electronics")},
        a \in {Absent} \cup {List(l) : l \in AnswerLists}}

GenerateBodies ==
    {None} \cup
    {Dict([prompt |-> p, max_tokens |-> m]) :
        p \in {Absent, Str("Describe the product"), Num(7)}, m \in {Absent, Num(100)}}

ChatBodies ==
    {None} \cup
    {Dict([message |-> m, context |-> c]) :
        m \in {Absent, Str("Is it safe?"), Num(7)},
        c \in {Absent, List(<<>>),
               List(<<Dict([role |-> Str("user"), content |-> Str("Hello")])>>),
               List(<<Str("Hello")>>)}}

QuestionBodies ==
    {None} \cup
    {Dict([category |-> c, description |-> d, product_name |-> p]) :
        c \in {Absent, Str(""), Str("Electronics"), Str("Food & Beverage"),
               Str("Clothing"), Str("Health & Beauty"), Str("Toys")},
        d \in {Absent, Str(""), Str("A phone made of recycled parts")},
        p \in {Absent, Str("EcoPhone")}}

QuestionOutcomes == {Raises} \cup {Text(t) : t \in question_replies}

TextOutcomes == {Raises, Text("It is a phone.")}

RecommendationOutcomes == {Raises} \cup {Text(t) : t \in recommendation_replies}

(***************************************************************************)
(* The service                                                             *)
(***************************************************************************)
NoResponse == [status |-> 0, body |-> <<>>]

Init ==
    /\ model \in BOOLEAN
    /\ route = "none"
    /\ request = None
    /\ reply = NoCall
    /\ aiCalls = 0
    /\ score_breakdown = <<>>
    /\ overall_score = <<>>
    /\ response = NoResponse

\* A handler runs on a fresh request context and leaves its response.
Respond(path, data, h) ==
    /\ route = "none"
    /\ route' = path
    /\ request' = data
    /\ reply' = h.reply
    /\ aiCalls' = h.aiCalls
    /\ score_breakdown' = h.score_breakdown
    /\ overall_score' = h.overall_score
    /\ response' = h.response
    /\ UNCHANGED model

TransparencyScore ==
    \E data \in ScoreBodies :
        \E ai \in IF model THEN RecommendationOutcomes ELSE {NoCall} :
            Respond("/api/transparency-score", data, calculate_transparency_score(data, ai))

GenerateText ==
    \E data \in GenerateBodies :
        \E ai \in IF model THEN TextOutcomes ELSE {NoCall} :
            Respond("/api/generate", data, generate_text(data, ai))

Chat ==
    \E data \in ChatBodies :
        \E ai \in IF model THEN TextOutcomes ELSE {NoCall} :
            Respond("/api/chat", data, chat(data, ai))

GenerateQuestions ==
    \E data \in QuestionBodies :
        \E ai \in IF model THEN QuestionOutcomes ELSE {NoCall} :
            Respond("/api/generate-questions", data, generate_questions(data, ai))

Home == Respond("/", None, Handled(home, NoCall, 0))

Health ==
    \E api_key_configured \in IF model THEN {TRUE} ELSE BOOLEAN :
        Respond("/health", None, Handled(health(api_key_configured), NoCall, 0))

\* any unmatched path
NotFound == Respond("not_found", None, Handled(not_found, NoCall, 0))

\* The response is sent and the request context is dropped: nothing but the
\* module-level model outlives a request.
ReturnResponse ==
    /\ route # "none"
    /\ route' = "none"
    /\ request' = None
    /\ reply' = NoCall
    /\ aiCalls' = 0
    /\ score_breakdown' = <<>>
    /\ overall_score' = <<>>
    /\ response' = NoResponse
    /\ UNCHANGED model

Next ==
    \/ Home
    \/ Health
    \/ GenerateText
    \/ Chat
    \/ GenerateQuestions
    \/ TransparencyScore
    \/ NotFound
    \/ ReturnResponse

Spec == Init /\ [][Next]_vars

(***************************************************************************)
(* generate_basic_recommendations on its own: applied to every breakdown   *)
(* over a grid of scores (0, 33.3.., 69.5, 70, 100)                         *)
(***************************************************************************)
ScoreGrid == {Int2Rat(0), Rat(100, 3), Rat(139, 2), Int2Rat(70), Int2Rat(100)}

Breakdowns ==
    [completeness : ScoreGrid, quality : ScoreGrid,
     transparency : ScoreGrid, compliance : ScoreGrid]

BasicRecommendations ==
    \E sb \in Breakdowns :
        Respond("generate_basic_recommendations", None,
                [response |-> [status |-> 0,
                               body |-> [recommendations |->
                                           generate_basic_recommendations(sb)]],
                 reply |-> NoCall, aiCalls |-> 0,
                 score_breakdown |-> <<sb>>, overall_score |-> <<>>])

NextBasic ==
    \/ BasicRecommendations
    \/ ReturnResponse

SpecBasic == Init /\ [][NextBasic]_vars

(***************************************************************************)
(* Properties                                                              *)
(***************************************************************************)
Scored == route = "/api/transparency-score" /\ response.status = 200

Result == response.body.transparency_score

\* C1: in every successful /api/transparency-score response the four
\* sub-scores lie in [0,100], the overall score is their unweighted mean
\* (so it lies in [0,100] too), and the reported overall_score is the tenth
\* nearest to it.
C1_SubScoresAndMean ==
    Scored =>
        LET sb == score_breakdown[1]
            o == overall_score[1]
            c == sb.completeness
            q == sb.quality
            t == sb.transparency
            p == sb.compliance
        IN  /\ \A k \in DOMAIN sb : sb[k].d > 0 /\ 0 <= sb[k].n /\ sb[k].n <= 100 * sb[k].d
            /\ DOMAIN sb = {"completeness", "quality", "transparency", "compliance"}
            /\ 4 * o.n * (c.d * q.d * t.d * p.d) =
                 o.d * (c.n * q.d * t.d * p.d + q.n * c.d * t.d * p.d
                        + t.n * c.d * q.d * p.d + p.n * c.d * q.d * t.d)
            /\ 0 <= o.n /\ o.n <= 100 * o.d
            /\ 2 * (10 * o.n - Result.overall_score * o.d) <= o.d
            /\ 2 * (Result.overall_score * o.d - 10 * o.n) <= o.d
            /\ Result.overall_score \in 0..1000

\* C1 witness: two of three answers count, two of them carry a keyword
C1_Witness ==
    /\ Scored
    /\ score_breakdown[1].completeness = Rat(200, 3)
    /\ score_breakdown[1].transparency = Int2Rat(100)
    /\ score_breakdown[1].compliance = Int2Rat(25)
    /\ Len(request.val.answers.val) = 3
    /\ Cardinality({i \in 1..3 :
          Contains("certified", lower(PyStr(request.val.answers.val[i].answer)))}) = 2

\* the band the thresholds assign to a score given in tenths
BandOfTenths(tenths) ==
    IF tenths >= 800 THEN [level |-> "Excellent", color |-> "green"]
    ELSE IF tenths >= 600 THEN [level |-> "Good", color |-> "blue"]
    ELSE IF tenths >= 400 THEN [level |-> "Fair", color |-> "yellow"]
    ELSE [level |-> "Needs Improvement", color |-> "red"]

\* C2: in every successful /api/transparency-score response score_level and
\* score_color are the ones the thresholds 80/60/40 assign to the reported
\* (rounded) overall_score.
C2_LevelOfReportedScore ==
    Scored =>
        /\ Result.score_level = BandOfTenths(Result.overall_score).level
        /\ Result.score_color = BandOfTenths(Result.overall_score).color

\* C3: every /api/transparency-score response that passes the answers check
\* carries exactly 3 recommendations.
C3_ExactlyThreeRecommendations ==
    Scored => Len(Result.recommendations) = 3

\* the AI recommendation path fails on this outcome of the call
RecommendationFailure(r) ==
    \/ r.kind = "raise"
    \/ /\ r.kind = "text"
       /\ \/ ~re_search(r.text).found
          \/ ~json_loads(re_search(r.text).group).ok

AnswersGiven ==
    /\ route = "/api/transparency-score"
    /\ request.kind = "dict"
    /\ request.val.answers.kind = "list"
    /\ request.val.answers.val # <<>>

\* C4: when the AI recommendation path fails (the call raises, the reply
\* holds no [...] substring, or the substring is no valid JSON) the handler
\* still answers 200 with the computed score, and the recommendations are
\* those of generate_basic_recommendations for the same breakdown.
C4_AIFailureFallsBack ==
    AnswersGiven /\ model /\ RecommendationFailure(reply) =>
        /\ response.status = 200
        /\ response.body.success = TRUE
        /\ Result.overall_score = Round1(overall_score[1])
        /\ Result.breakdown = rounded(score_breakdown[1])
        /\ Result.recommendations = generate_basic_recommendations(score_breakdown[1])
        /\ Len(Result.recommendations) = 3

\* C4 witness: a reply whose [...] substring is no valid JSON
C4_Witness ==
    /\ AnswersGiven /\ model
    /\ reply.kind = "text"
    /\ re_search(reply.text).found
    /\ ~json_loads(re_search(reply.text).group).ok
    /\ response.status = 200
    /\ Result.recommendations[3] = Str(filler_text)

QuestionsRoute == route = "/api/generate-questions"

\* the body names neither a category nor a description
NeitherPresent ==
    \/ request.kind # "dict"
    \/ /\ request.val.category \in {Absent, Str("")}
       /\ request.val.description \in {Absent, Str("")}

\* C5 as claimed: such a request always ends in 400, whatever the AI
\* configuration.
C5_AlwaysBadRequest ==
    QuestionsRoute /\ NeitherPresent => response.status = 400

\* C5 as amended: a /api/generate-questions request with neither category
\* nor description ends in 400 when the AI is configured and in 503 when it
\* is not; in both cases without an AI call and without questions.
C5_BadRequestOrUnavailable ==
    QuestionsRoute /\ NeitherPresent =>
        /\ response.status = IF model THEN 400 ELSE 503
        /\ aiCalls = 0
        /\ reply = NoCall
        /\ "questions" \notin DOMAIN response.body
        /\ DOMAIN response.body = {"error", "message"}

\* C5 witness: only product_name and an empty category are sent
C5_Witness ==
    /\ QuestionsRoute /\ model
    /\ request.kind = "dict"
    /\ request.val.product_name = Str("EcoPhone")
    /\ request.val.category = Str("")
    /\ request.val.description = Absent
    /\ response.status = 400

\* the first three parsed entries of a reply, <<>> when it does not parse
ParsedEntries(r) ==
    LET json_match == re_search(strip(r.text))
        parsed == json_loads(json_match.group)
    IN  IF json_match.found /\ parsed.ok THEN Take(parsed.value.val, 3) ELSE <<>>

\* the AI step of /api/generate-questions fails on this outcome of the call
QuestionFailure(r) ==
    \/ r.kind = "raise"
    \/ /\ r.kind = "text"
       /\ \/ ~re_search(strip(r.text)).found
          \/ ~json_loads(re_search(strip(r.text)).group).ok
          \/ \E i \in 1..Len(ParsedEntries(r)) : ParsedEntries(r)[i].kind # "dict"

\* the ids of the fallback questions of a category
FallbackIds(category) ==
    CASE category = Str("Electronics") ->
           <<"warranty_period", "energy_efficiency", "safety_certifications">>
      [] category = Str("Food & Beverage") ->
           <<"expiry_shelf_life", "organic_certified", "allergen_information">>
      [] category = Str("Clothing") ->
           <<"material_composition", "care_instructions", "size_availability">>
      [] category = Str("Health & Beauty") ->
           <<"ingredients_list", "skin_tested", "expiry_date">>
      [] OTHER -> <<"quality_standards", "country_of_origin", "customer_support">>

\* the response is the success response of the fallback questions
FallbackAnswered ==
    LET ids == FallbackIds(request.val.category)
        ref == IF request.val.product_name = Absent THEN "this product"
               ELSE "this " \o request.val.product_name.val
    IN  /\ response.status = 200
        /\ response.body.success = TRUE
        /\ Len(response.body.questions) = 3
        /\ \A i \in 1..3 :
              /\ response.body.questions[i].id = Str(ids[i])
              /\ Contains(ref, response.body.questions[i].question.val)
        /\ response.body.count = 3
        /\ "note" \in DOMAIN response.body

\* C6 as claimed: once category or description is present, every failing
\* outcome of the AI step, the AI being unavailable included, leads to the
\* 200 fallback response.
C6_EveryFailureFallsBack ==
    QuestionsRoute /\ ~NeitherPresent /\ (~model \/ QuestionFailure(reply)) =>
        FallbackAnswered

\* C6 as amended: once category or description is present and the AI is
\* configured, every failing outcome of the AI step (the call raises, the
\* reply has no [...] substring, the substring is no valid JSON, a parsed
\* entry is no object) leads to a 200 response with success = true, the 3
\* fallback questions of the requested category, count = 3 and a note; the
\* hard failures of the endpoint are the 503 of an unconfigured AI and the
\* missing-input 400.
C6_ConfiguredFailureFallsBack ==
    /\ QuestionsRoute /\ ~NeitherPresent /\ model /\ QuestionFailure(reply) =>
          FallbackAnswered
    /\ QuestionsRoute /\ ~NeitherPresent /\ model =>
          response.status = 200 /\ response.body.success = TRUE
    /\ QuestionsRoute /\ ~model => response.status = 503
    /\ QuestionsRoute /\ response.status \notin {200, 503} =>
          model /\ NeitherPresent /\ response.status = 400

\* C6 witness: the reply is a JSON array whose entry is a string
C6_Witness ==
    /\ QuestionsRoute /\ model
    /\ request.kind = "dict"
    /\ request.val.category = Str("Electronics")
    /\ reply.kind = "text"
    /\ Len(ParsedEntries(reply)) = 1
    /\ ParsedEntries(reply)[1].kind = "str"
    /\ response.status = 200
    /\ response.body.model = "fallback"
    /\ response.body.questions[1].id = Str("warranty_period")

QuestionTypes == {Str("text"), Str("number"), Str("boolean"), Str("select")}

\* C7: every question of a /api/generate-questions success response has a
\* type in {text, number, boolean, select}.
C7_TypesAreValid ==
    QuestionsRoute /\ response.status = 200 =>
        \A i \in 1..Len(response.body.questions) :
            response.body.questions[i].type \in QuestionTypes

\* C8: every error response (400, 404, 500, 503) carries a message field.
C8_ErrorsHaveMessage ==
    response.status \in {400, 404, 500, 503} => "message" \in DOMAIN response.body

\* C9: POST /api/transparency-score with answers missing or an empty list
\* returns 400 with an error field and no transparency_score key, whether or
\* not the AI is configured, with no scoring and no AI call.
C9_MissingAnswersRefused ==
    /\ route = "/api/transparency-score"
    /\ \/ request.kind # "dict"
       \/ request.val.answers \in {Absent, List(<<>>)}
    => /\ response.status = 400
       /\ "error" \in DOMAIN response.body
       /\ "transparency_score" \notin DOMAIN response.body
       /\ score_breakdown = <<>>
       /\ overall_score = <<>>
       /\ aiCalls = 0
       /\ reply = NoCall

\* C9 witness: an empty answers list, sent to a service with the AI configured
C9_Witness ==
    /\ route = "/api/transparency-score"
    /\ model
    /\ request.kind = "dict"
    /\ request.val.answers = List(<<>>)
    /\ request.val.category = Str("Electronics")
    /\ response.status = 400
    /\ response.body.error = "Missing answers"

\* the fixed text of each sub-category, in the order of the tie-break
AreaTexts ==
    <<[area |-> "completeness",
       text |-> "Provide more detailed answers to all questions to improve transparency"],
      [area |-> "quality",
       text |-> "Include more specific details and explanations in your responses"],
      [area |-> "transparency",
       text |-> "Add more certifications, standards compliance, and quality documentation"],
      [area |-> "compliance",
       text |-> "Ensure all category-specific requirements and standards are addressed"]>>

Below70(x) == x.n < 70 * x.d

\* C10: generate_basic_recommendations returns exactly 3 non-empty strings;
\* the first is the text of the lowest sub-category, a tie going to the
\* first of completeness, quality, transparency, compliance; the
\* certification text follows only if transparency < 70, then the
\* documentation text only if quality < 70, and the rest is the filler.
C10_BasicRecommendations ==
    route = "generate_basic_recommendations" =>
        LET sb == score_breakdown[1]
            r == response.body.recommendations
        IN  /\ Len(r) = 3
            /\ \A i \in 1..3 : r[i].kind = "str" /\ r[i].val # ""
            /\ \E i \in 1..4 :
                  /\ r[1] = Str(AreaTexts[i].text)
                  /\ \A j \in 1..4 :
                        sb[AreaTexts[i].area].n * sb[AreaTexts[j].area].d
                          <= sb[AreaTexts[j].area].n * sb[AreaTexts[i].area].d
                  /\ \A j \in 1..(i - 1) :
                        sb[AreaTexts[i].area].n * sb[AreaTexts[j].area].d
                          < sb[AreaTexts[j].area].n * sb[AreaTexts[i].area].d
            /\ r[2] = IF Below70(sb.transparency) THEN Str(certification_text)
                      ELSE IF Below70(sb.quality) THEN Str(documentation_text)
                      ELSE Str(filler_text)
            /\ r[3] = IF Below70(sb.transparency) /\ Below70(sb.quality)
                      THEN Str(documentation_text)
                      ELSE Str(filler_text)

\* C10 witness: the all-100 breakdown, a four-way tie
C10_Witness ==
    /\ route = "generate_basic_recommendations"
    /\ \A k \in DOMAIN score_breakdown[1] : score_breakdown[1][k] = Int2Rat(100)
    /\ response.body.recommendations =
         <<Str("Provide more detailed answers to all questions to improve transparency"),
           Str(filler_text), Str(filler_text)>>

(***************************************************************************)
(* The transparency sub-score                                              *)
(***************************************************************************)
Keywords ==
    {"certified", "organic", "tested", "verified", "compliant", "standard",
     "warranty", "guarantee", "documentation", "certificate", "audit",
     "eco-friendly", "sustainable", "ethical", "cruelty-free"}

\* the lower-cased text of an answer of the request
AnswerText(a) == lower(PyStr(GetD(a, "answer", Str(""))))

\* the keywords inside the text of an answer
KeywordsIn(a) == {k \in Keywords : Contains(k, AnswerText(a))}

\* the positions of the request's answers that carry a keyword
Matching ==
    {i \in 1..Len(request.val.answers.val) :
        KeywordsIn(request.val.answers.val[i]) # {}}

RequiredTerms(category) ==
    CASE category = Str("Electronics") -> {"warranty", "safety", "energy", "certification"}
      [] category = Str("Food & Beverage") -> {"expiry", "organic", "allergen", "shelf"}
      [] category = Str("Clothing") -> {"material", "care", "size", "manufacturing"}
      [] category = Str("Health & Beauty") -> {"ingredients", "tested", "dermatolog", "expiry"}
      [] OTHER -> {"quality", "origin", "standard"}

\* the lower-cased questionId of an answer of the request
QuestionIdText(a) == lower(PyStr(GetD(a, "questionId", Str(""))))

\* the required terms of the request's category found in an answer
TermsIn(a) ==
    {t \in RequiredTerms(request.val.category) :
        Contains(t, AnswerText(a)) \/ Contains(t, QuestionIdText(a))}

\* the positions of the request's answers that meet a required term
Compliant ==
    {i \in 1..Len(request.val.answers.val) :
        TermsIn(request.val.answers.val[i]) # {}}

\* C12: the compliance sub-score of a scored request is min(25 x M, 100),
\* M being the number of answers with at least one required term of the
\* category (quality/origin/standard for an unknown category) inside the
\* lower-cased answer text or the lower-cased questionId; an answer counts
\* once, however many terms it meets and wherever it meets them.
C12_ComplianceCountsAnswers ==
    Scored =>
        LET M == Cardinality(Compliant)
            expected == IF 25 * M < 100 THEN 25 * M ELSE 100
        IN  /\ score_breakdown[1].compliance = Int2Rat(expected)
            /\ Result.breakdown.compliance = 10 * expected

\* C12 witness: five Electronics answers, each with three required terms in
\* its text, reach the cap
C12_Witness ==
    /\ Scored
    /\ request.val.category = Str("Electronics")
    /\ Cardinality(Compliant) = 5
    /\ \A i \in Compliant : Cardinality(TermsIn(request.val.answers.val[i])) = 3
    /\ score_breakdown[1].compliance = Int2Rat(100)

\* one Electronics answer with warranty, safety and certification gives 25
C12_SingleAnswer ==
    /\ Scored
    /\ request.val.category = Str("Electronics")
    /\ Len(request.val.answers.val) = 1
    /\ Cardinality(TermsIn(request.val.answers.val[1])) = 3
    /\ score_breakdown[1].compliance = Int2Rat(25)

\* an answer of an unknown category that meets the default list in its text
\* and in its questionId gives 25
C12_DefaultList ==
    /\ Scored
    /\ request.val.category = Absent
    /\ Len(request.val.answers.val) = 1
    /\ Contains("quality", AnswerText(request.val.answers.val[1]))
    /\ Contains("origin", QuestionIdText(request.val.answers.val[1]))
    /\ score_breakdown[1].compliance = Int2Rat(25)

(***************************************************************************)
(* Calls of the external generation API                                    *)
(***************************************************************************)
ApiRoutes ==
    {"/api/generate", "/api/chat", "/api/generate-questions", "/api/transparency-score"}

\* C13: while a request is handled the generation API has been invoked at
\* most once, whatever the outcome of the call (a raised error or a
\* malformed reply is never followed by a second call), and not at all when
\* the credential is absent (model is None).
C13_AtMostOneCall ==
    /\ aiCalls \in {0, 1}
    /\ aiCalls = 0 <=> reply = NoCall
    /\ ~model => aiCalls = 0
    /\ route \notin ApiRoutes => aiCalls = 0

\* C13 witness: the one call of a /api/generate-questions request raised, the
\* handler fell back and made no second call
C13_Witness ==
    /\ route = "/api/generate-questions"
    /\ model
    /\ reply.kind = "raise"
    /\ aiCalls = 1
    /\ response.status = 200

(***************************************************************************)
(* Unanswered questions                                                    *)
(***************************************************************************)
\* an answer whose value is null, absent, an empty string or whitespace only
Unanswered(a) ==
    LET v == Get(a, "answer")
    IN  \/ v \in {None, Absent}
        \/ v.kind = "str" /\ strip(v.val) = ""

\* C14: a scored request whose answers are all null, absent, empty or
\* whitespace-only has completeness = 0 and quality = 0: such an answer adds
\* nothing to the completeness numerator and is left out of the quality
\* average.
C14_UnansweredCountsNowhere ==
    /\ Scored
    /\ \A i \in 1..Len(request.val.answers.val) : Unanswered(request.val.answers.val[i])
    => /\ score_breakdown[1].completeness = Int2Rat(0)
       /\ score_breakdown[1].quality = Int2Rat(0)
       /\ Result.breakdown.completeness = 0
       /\ Result.breakdown.quality = 0

\* what the code does with a null answer: str(None) is the 4-character text
\* "None", which the quality loop counts in the lowest tier
C14_NullCountsInQuality ==
    /\ Scored
    /\ \A i \in 1..Len(request.val.answers.val) :
          request.val.answers.val[i].answer = None
    => /\ score_breakdown[1].completeness = Int2Rat(0)
       /\ score_breakdown[1].quality = Int2Rat(25)

\* a request whose only answer is null
C14_NullAnswer ==
    /\ Scored
    /\ Len(request.val.answers.val) = 1
    /\ request.val.answers.val[1].answer = None

====
